---------------------------- MODULE Spec2Model ----------------------------
(***************************************************************************)
(* Model of map_machine/mapper.py: class Map (draw, draw_buildings,        *)
(* draw_roads).  The canvas `svg` is the sequence of draw operations the   *)
(* code performs, in the order it performs them.  One action per loop      *)
(* iteration / loop exit of the source.  The progress_bar calls only       *)
(* report and are left out.                                                *)
(***************************************************************************)
EXTENDS Integers, Sequences, FiniteSets, TLC

VARIABLES
    constructor,      \* Constructor: figures, roads, trees, craters, ...
    configuration,    \* MapConfiguration
    roads,            \* argument of draw_roads
    background_color, \* Map.background_color
    svg,              \* the canvas: sequence of emitted draw operations
    pc,               \* position in draw / draw_buildings / draw_roads
    index,            \* loop index of the running for-loop (1-based)
    ways,             \* draw: sorted figures (indices into constructor.figures)
    layered_roads,    \* draw: dict layer -> list of roads (indices)
    layers,           \* draw: sorted(layered_roads.keys())
    layer_index,      \* draw: position in layers
    building_shade,   \* draw_buildings: Group the shades are drawn into
    heights,          \* draw_buildings: sorted(constructor.heights)
    height_index,     \* draw_buildings: position in heights
    previous_height,  \* draw_buildings
    occupied,         \* draw: 0 is None, k > 0 is the k-th Occupied instance
    trackers,         \* number of Occupied instances constructed
    nodes,            \* draw: sorted points (indices into constructor.points)
    node_order,       \* draw_roads: keys of dict `nodes` in insertion order
    node_parts,       \* draw_roads: dict `nodes`, node -> set of RoadPart
    road_index,       \* draw_roads: position in roads
    segment_index     \* draw_roads: `index` of the inner loop (0-based)

vars == <<constructor, configuration, roads, background_color, svg, pc, index,
          ways, layered_roads, layers, layer_index, building_shade, heights,
          height_index, previous_height, occupied, trackers, nodes,
          node_order, node_parts, road_index, segment_index>>

-----------------------------------------------------------------------------
(* Bounds of the explored inputs. *)

MaxFigures == 3
MaxPriority == 2
MaxRoads == 3
MaxLayer == 1
MaxItems == 1
MaxBand == 3
MaxPoints == 3
MaxJunctionRoads == 2

-----------------------------------------------------------------------------
(* Value domains of the collaborators' attributes. *)

Priorities == 1..MaxPriority
LayerValues == (0 - MaxLayer)..MaxLayer
\* heights are multiples of 3, so that {3, 6, 9} is a set of heights
HeightValues == {3 * k : k \in 0..MaxBand}
LabelModes == {"NO", "ALL"}
BuildingModes == {"FLAT", "EXTRUDED", "UNRECOGNIZED"}
OSMNodes == {1, 2, 3}

SeqsUpTo(S, n) == UNION {[1..k -> S] : k \in 0..n}

\* StyledFigure: line_style.priority and whether get_path is non-empty
StyledFigures == [priority : Priorities, path : BOOLEAN]
\* Road as read by draw: its layer
LayerRoads == [layer : LayerValues]
\* Building: min_height <= height
Buildings == {b \in [min_height : HeightValues, height : HeightValues] :
                 b.min_height <= b.height}
\* Point: priority
Points == [priority : Priorities]
\* Road as read by draw_roads: outers[0], a way of up to three nodes that
\* visits no node twice
NodeLists == {s \in SeqsUpTo(OSMNodes, Cardinality(OSMNodes)) :
                 \A i, j \in 1..Len(s) : s[i] = s[j] => i = j}
JunctionRoads == [outers0 : NodeLists]

-----------------------------------------------------------------------------
(* Pure helpers. *)

\* One draw operation put on the canvas (or one call of a collaborator's
\* draw method): op names it, id is the index of the drawn object in its
\* collection, s/x/y/parts are its arguments.
Emit(op, id, s, x, y) ==
    [op |-> op, id |-> id, s |-> s, x |-> x, y |-> y, parts |-> <<>>]

EmitParts(op, id, parts) ==
    [op |-> op, id |-> id, s |-> "", x |-> 0, y |-> 0, parts |-> parts]

\* an insertion that puts an element in front of the elements of equal key
InsertUnstable(sorted, i, key) ==
    LET pos == Cardinality({j \in 1..Len(sorted) : key[sorted[j]] < key[i]})
    IN  SubSeq(sorted, 1, pos) \o <<i>> \o SubSeq(sorted, pos + 1, Len(sorted))

\* Insertion of index i into the sorted index list, behind every element
\* whose key is less than or equal (so equal keys keep their input order).
InsertStable(sorted, i, key) ==
    LET pos == Cardinality({j \in 1..Len(sorted) : key[sorted[j]] <= key[i]})
    IN  SubSeq(sorted, 1, pos) \o <<i>> \o SubSeq(sorted, pos + 1, Len(sorted))

\* Python's sorted(collection, key=...): a stable ascending sort.  The result
\* lists the indices 1..n of the collection's elements.
RECURSIVE SortedIndices(_, _)
SortedIndices(key, n) ==
    IF n = 0 THEN <<>>
    ELSE InsertStable(SortedIndices(key, n - 1), n, key)

\* the numbers of a set from the largest down
RECURSIVE SortedSetDescending(_)
SortedSetDescending(S) ==
    IF S = {} THEN <<>>
    ELSE LET m == CHOOSE a \in S : \A b \in S : a >= b
         IN  <<m>> \o SortedSetDescending(S \ {m})

\* sorted(xs) of a set of numbers: ascending.
RECURSIVE SortedSet(_)
SortedSet(S) ==
    IF S = {} THEN <<>>
    ELSE LET m == CHOOSE a \in S : \A b \in S : a <= b
         IN  <<m>> \o SortedSet(S \ {m})

\* key=lambda x: x.line_style.priority
FigureKey(figures) == [i \in 1..Len(figures) |-> figures[i].priority]

\* the priority itself as the key
PointKeyAscending(points) == [i \in 1..Len(points) |-> points[i].priority]

\* key=lambda x: -x.priority
PointKey(points) == [i \in 1..Len(points) |-> 0 - points[i].priority]

\* The grouping loop: layered_roads[road.layer].append(road), in input order.
RECURSIVE GroupByLayer(_, _)
GroupByLayer(rs, n) ==
    IF n = 0 THEN <<>>
    ELSE LET d == GroupByLayer(rs, n - 1)
             l == rs[n].layer
             d1 == IF l \in DOMAIN d THEN d ELSE d @@ (l :> <<>>)
         IN  [d1 EXCEPT ![l] = Append(@, n)]

\* Map.__init__: the background colour.
BackgroundColor(cfg) ==
    IF cfg.wireframe THEN "#111111" ELSE "background_color"

\* the stage order with the trees drawn behind the craters
AfterStageCratersFirst(stage) ==
    CASE stage = "layers" -> "craters"
      [] stage = "craters" -> "trees"
      [] stage = "trees" -> "sectors"

\* The statement order of draw, lines 79-92: the loop that follows the
\* road layers, the trees and the craters.
AfterStage(stage) ==
    CASE stage = "layers" -> "trees"
      [] stage = "trees" -> "craters"
      [] stage = "craters" -> "sectors"

\* a skip test that also skips the band ending at the building's height
SkipWallsStrict(building, height) ==
    building.height <= height \/ building.min_height > height

\* line 156: the walls of `building` are skipped in the band ending at
\* `height`.
SkipWalls(building, height) ==
    building.height < height \/ building.min_height > height

\* a roof test that also holds in every band above the building
RoofAtOrBelow(building, height) == building.height <= height

\* line 161: the roof of `building` is drawn in the band ending at `height`.
RoofHere(building, height) == building.height = height

-----------------------------------------------------------------------------
(* Initial states: a Map constructed over a configuration, about to run    *)
(* draw on a constructor (or draw_roads on a list of roads).               *)

Configurations ==
    [wireframe : BOOLEAN, label_mode : LabelModes, overlap : {0, 1},
     building_mode : BuildingModes]

\* labels and the tracker on, flat or extruded buildings
PlainConfigurations ==
    {c \in Configurations :
        /\ ~c.wireframe /\ c.label_mode = "ALL" /\ c.overlap = 1
        /\ c.building_mode # "UNRECOGNIZED"}

PlainFigure == [priority |-> 1, path |-> TRUE]
PlainRoad == [layer |-> 0]
PlainBuilding == [min_height |-> 0, height |-> 3]
PlainPoint == [priority |-> 1]

\* the heights of the buildings of a list
HeightsOf(buildings) == {buildings[i].height : i \in 1..Len(buildings)}

\* every collection empty or of plain elements
SmallConstructors ==
    {c \in [figures : SeqsUpTo({PlainFigure}, MaxItems),
            roads : SeqsUpTo({PlainRoad}, MaxItems),
            trees : 0..MaxItems,
            craters : 0..MaxItems,
            direction_sectors : 0..MaxItems,
            buildings : SeqsUpTo({PlainBuilding}, MaxItems),
            heights : SUBSET {3},
            points : SeqsUpTo({PlainPoint}, MaxItems)] :
        c.heights = HeightsOf(c.buildings)}

\* one plain element in every collection
PlainConstructor ==
    [figures |-> <<PlainFigure>>, roads |-> <<PlainRoad>>, trees |-> 1,
     craters |-> 1, direction_sectors |-> 1, buildings |-> <<PlainBuilding>>,
     heights |-> {3}, points |-> <<PlainPoint>>]

FigureConstructors ==
    {[PlainConstructor EXCEPT !.figures = f] :
        f \in SeqsUpTo(StyledFigures, MaxFigures)}

RoadConstructors ==
    {[PlainConstructor EXCEPT !.roads = r] :
        r \in SeqsUpTo(LayerRoads, MaxRoads)}

\* up to two buildings, any set of heights
BuildingConstructors ==
    {[PlainConstructor EXCEPT !.buildings = b, !.heights = h] :
        b \in SeqsUpTo(Buildings, 2), h \in SUBSET HeightValues}

PointConstructors ==
    {[PlainConstructor EXCEPT !.points = p] :
        p \in SeqsUpTo(Points, MaxPoints)}

\* Road with the attributes both draw and draw_roads read
CrossingRoads == [layer : {0, 1}, outers0 : NodeLists]

\* up to two roads that may meet
CrossingConstructors ==
    {[PlainConstructor EXCEPT !.roads = r] :
        r \in SeqsUpTo(CrossingRoads, 2)}

\* up to four roads of one segment at most
StarRoads ==
    SeqsUpTo([outers0 : {s \in NodeLists : Len(s) <= 2}], 4)

InitLocals ==
    /\ svg = <<>>
    /\ index = 1
    /\ ways = <<>>
    /\ layered_roads = <<>>
    /\ layers = <<>>
    /\ layer_index = 1
    /\ building_shade = <<>>
    /\ heights = <<>>
    /\ height_index = 1
    /\ previous_height = 0
    /\ occupied = 0
    /\ trackers = 0
    /\ nodes = <<>>
    /\ node_order = <<>>
    /\ node_parts = <<>>
    /\ road_index = 1
    /\ segment_index = 0

InitDraw(constructors, configurations) ==
    /\ constructor \in constructors
    /\ configuration \in configurations
    /\ roads = <<>>
    /\ background_color = BackgroundColor(configuration)
    /\ pc = "draw"
    /\ InitLocals

\* draw_roads reads neither the constructor nor the configuration
InitDrawRoads(roadLists) ==
    /\ constructor = PlainConstructor
    /\ configuration = [wireframe |-> FALSE, label_mode |-> "ALL",
                        overlap |-> 1, building_mode |-> "FLAT"]
    /\ roads \in roadLists
    /\ background_color = BackgroundColor(configuration)
    /\ pc = "draw_roads"
    /\ InitLocals

Init == InitDraw(SmallConstructors, Configurations)

InitFigures == InitDraw(FigureConstructors, PlainConfigurations)

InitRoads == InitDraw(RoadConstructors, PlainConfigurations)

InitBuildings == InitDraw(BuildingConstructors, PlainConfigurations)

InitPoints == InitDraw(PointConstructors, Configurations)

InitJunctions == InitDrawRoads(SeqsUpTo(JunctionRoads, MaxJunctionRoads))

InitCrossings == InitDraw(CrossingConstructors, PlainConfigurations)

\* up to two roads of up to two segments, or up to four of one at most
InitSegments ==
    \/ InitDrawRoads(SeqsUpTo(JunctionRoads, 2))
    \/ InitDrawRoads(StarRoads)

-----------------------------------------------------------------------------
(* Map.draw *)

\* lines 57-63: the background rectangle, then the figures are sorted
DrawBackground ==
    /\ pc = "draw"
    /\ svg' = Append(svg, Emit("Rect", 0, background_color, 0, 0))
    /\ ways' = SortedIndices(FigureKey(constructor.figures),
                             Len(constructor.figures))
    /\ index' = 1
    /\ pc' = "ways"
    /\ UNCHANGED <<constructor, configuration, roads, background_color,
                   layered_roads, layers, layer_index, building_shade,
                   heights, height_index, previous_height, occupied, trackers,
                   nodes, node_order, node_parts, road_index, segment_index>>

\* a figure loop that adds the path without looking at it
DrawWayAlways ==
    /\ pc = "ways"
    /\ index <= Len(ways)
    /\ LET way == constructor.figures[ways[index]]
       IN  svg' = Append(svg, Emit("path", ways[index], "", way.priority, 0))
    /\ index' = index + 1
    /\ UNCHANGED <<constructor, configuration, roads, background_color, pc,
                   ways, layered_roads, layers, layer_index, building_shade,
                   heights, height_index, previous_height, occupied,
                   trackers, nodes, node_order, node_parts, road_index,
                   segment_index>>

\* lines 64-70: one figure; an empty path adds nothing
DrawWay ==
    /\ pc = "ways"
    /\ index <= Len(ways)
    /\ LET way == constructor.figures[ways[index]]
       IN  svg' = IF way.path
                  THEN Append(svg, Emit("path", ways[index], "", way.priority, 0))
                  ELSE svg
    /\ index' = index + 1
    /\ UNCHANGED <<constructor, configuration, roads, background_color, pc,
                   ways, layered_roads, layers, layer_index, building_shade,
                   heights, height_index, previous_height, occupied, trackers,
                   nodes, node_order, node_parts, road_index, segment_index>>

\* lines 73-79: roads grouped by layer, the layers sorted
GroupRoads ==
    /\ pc = "ways"
    /\ index > Len(ways)
    /\ layered_roads' = GroupByLayer(constructor.roads, Len(constructor.roads))
    /\ layers' = SortedSet(DOMAIN layered_roads')
    /\ layer_index' = 1
    /\ pc' = "layers"
    /\ UNCHANGED <<constructor, configuration, roads, background_color, svg,
                   index, ways, building_shade, heights, height_index,
                   previous_height, occupied, trackers, nodes, node_order,
                   node_parts, road_index, segment_index>>

\* lines 79-80: the next layer
EnterLayer ==
    /\ pc = "layers"
    /\ layer_index <= Len(layers)
    /\ index' = 1
    /\ pc' = "borders"
    /\ UNCHANGED <<constructor, configuration, roads, background_color, svg,
                   ways, layered_roads, layers, layer_index, building_shade,
                   heights, height_index, previous_height, occupied, trackers,
                   nodes, node_order, node_parts, road_index, segment_index>>

\* one loop over the roads of a layer that draws border and fill of a road together
DrawBorderWithFill ==
    /\ pc = "borders"
    /\ index <= Len(layered_roads[layers[layer_index]])
    /\ svg' = svg \o
              <<Emit("road.draw", layered_roads[layers[layer_index]][index],
                     "border_color", 2, 0),
                Emit("road.draw", layered_roads[layers[layer_index]][index],
                     "color", 0, 0)>>
    /\ index' = index + 1
    /\ UNCHANGED <<constructor, configuration, roads, background_color, pc,
                   ways, layered_roads, layers, layer_index, building_shade,
                   heights, height_index, previous_height, occupied,
                   trackers, nodes, node_order, node_parts, road_index,
                   segment_index>>

\* lines 81-82: road.draw(svg, flinger, road.matcher.border_color, 2)
DrawBorder ==
    /\ pc = "borders"
    /\ index <= Len(layered_roads[layers[layer_index]])
    /\ svg' = Append(svg, Emit("road.draw",
                               layered_roads[layers[layer_index]][index],
                               "border_color", 2, 0))
    /\ index' = index + 1
    /\ UNCHANGED <<constructor, configuration, roads, background_color, pc,
                   ways, layered_roads, layers, layer_index, building_shade,
                   heights, height_index, previous_height, occupied, trackers,
                   nodes, node_order, node_parts, road_index, segment_index>>

BordersDone ==
    /\ pc = "borders"
    /\ index > Len(layered_roads[layers[layer_index]])
    /\ index' = 1
    /\ pc' = "fills"
    /\ UNCHANGED <<constructor, configuration, roads, background_color, svg,
                   ways, layered_roads, layers, layer_index, building_shade,
                   heights, height_index, previous_height, occupied, trackers,
                   nodes, node_order, node_parts, road_index, segment_index>>

\* lines 83-84: road.draw(svg, flinger, road.matcher.color), no factor
DrawFill ==
    /\ pc = "fills"
    /\ index <= Len(layered_roads[layers[layer_index]])
    /\ svg' = Append(svg, Emit("road.draw",
                               layered_roads[layers[layer_index]][index],
                               "color", 0, 0))
    /\ index' = index + 1
    /\ UNCHANGED <<constructor, configuration, roads, background_color, pc,
                   ways, layered_roads, layers, layer_index, building_shade,
                   heights, height_index, previous_height, occupied, trackers,
                   nodes, node_order, node_parts, road_index, segment_index>>

FillsDone ==
    /\ pc = "fills"
    /\ index > Len(layered_roads[layers[layer_index]])
    /\ layer_index' = layer_index + 1
    /\ pc' = "layers"
    /\ UNCHANGED <<constructor, configuration, roads, background_color, svg,
                   index, ways, layered_roads, layers, building_shade,
                   heights, height_index, previous_height, occupied, trackers,
                   nodes, node_order, node_parts, road_index, segment_index>>

LayersDone ==
    /\ pc = "layers"
    /\ layer_index > Len(layers)
    /\ index' = 1
    /\ pc' = AfterStage("layers")
    /\ UNCHANGED <<constructor, configuration, roads, background_color, svg,
                   ways, layered_roads, layers, layer_index, building_shade,
                   heights, height_index, previous_height, occupied, trackers,
                   nodes, node_order, node_parts, road_index, segment_index>>

\* lines 86-87: tree.draw(svg, flinger, scheme)
DrawTree ==
    /\ pc = "trees"
    /\ index <= constructor.trees
    /\ svg' = Append(svg, Emit("tree.draw", index, "scheme", 0, 0))
    /\ index' = index + 1
    /\ UNCHANGED <<constructor, configuration, roads, background_color, pc,
                   ways, layered_roads, layers, layer_index, building_shade,
                   heights, height_index, previous_height, occupied,
                   trackers, nodes, node_order, node_parts, road_index,
                   segment_index>>

TreesDone ==
    /\ pc = "trees"
    /\ index > constructor.trees
    /\ index' = 1
    /\ pc' = AfterStage("trees")
    /\ UNCHANGED <<constructor, configuration, roads, background_color, svg,
                   ways, layered_roads, layers, layer_index, building_shade,
                   heights, height_index, previous_height, occupied,
                   trackers, nodes, node_order, node_parts, road_index,
                   segment_index>>

\* lines 88-89: crater.draw(svg, flinger)
DrawCrater ==
    /\ pc = "craters"
    /\ index <= constructor.craters
    /\ svg' = Append(svg, Emit("crater.draw", index, "", 0, 0))
    /\ index' = index + 1
    /\ UNCHANGED <<constructor, configuration, roads, background_color, pc,
                   ways, layered_roads, layers, layer_index, building_shade,
                   heights, height_index, previous_height, occupied,
                   trackers, nodes, node_order, node_parts, road_index,
                   segment_index>>

CratersDone ==
    /\ pc = "craters"
    /\ index > constructor.craters
    /\ index' = 1
    /\ pc' = AfterStage("craters")
    /\ UNCHANGED <<constructor, configuration, roads, background_color, svg,
                   ways, layered_roads, layers, layer_index, building_shade,
                   heights, height_index, previous_height, occupied,
                   trackers, nodes, node_order, node_parts, road_index,
                   segment_index>>

\* lines 91-92: direction_sector.draw(svg, scheme)
DrawSector ==
    /\ pc = "sectors"
    /\ index <= constructor.direction_sectors
    /\ svg' = Append(svg, Emit("direction_sector.draw", index, "scheme", 0, 0))
    /\ index' = index + 1
    /\ UNCHANGED <<constructor, configuration, roads, background_color, pc,
                   ways, layered_roads, layers, layer_index, building_shade,
                   heights, height_index, previous_height, occupied,
                   trackers, nodes, node_order, node_parts, road_index,
                   segment_index>>

-----------------------------------------------------------------------------
(* Map.draw_buildings, called at line 94 *)

\* line 94 and line 139: draw_buildings tests the building mode
SectorsDone ==
    /\ pc = "sectors"
    /\ index > constructor.direction_sectors
    /\ index' = 1
    /\ pc' = IF configuration.building_mode = "FLAT" THEN "flat" ELSE "shades"
    /\ UNCHANGED <<constructor, configuration, roads, background_color, svg,
                   ways, layered_roads, layers, layer_index, building_shade,
                   heights, height_index, previous_height, occupied,
                   trackers, nodes, node_order, node_parts, road_index,
                   segment_index>>

\* lines 140-141: building.draw(svg, flinger)
DrawFlat ==
    /\ pc = "flat"
    /\ index <= Len(constructor.buildings)
    /\ svg' = Append(svg, Emit("building.draw", index, "", 0, 0))
    /\ index' = index + 1
    /\ UNCHANGED <<constructor, configuration, roads, background_color, pc,
                   ways, layered_roads, layers, layer_index, building_shade,
                   heights, height_index, previous_height, occupied,
                   trackers, nodes, node_order, node_parts, road_index,
                   segment_index>>

\* line 142: return
FlatDone ==
    /\ pc = "flat"
    /\ index > Len(constructor.buildings)
    /\ pc' = "occupied"
    /\ UNCHANGED <<constructor, configuration, roads, background_color, svg,
                   index, ways, layered_roads, layers, layer_index,
                   building_shade, heights, height_index, previous_height,
                   occupied, trackers, nodes, node_order, node_parts,
                   road_index, segment_index>>

\* lines 146-147: building.draw_shade(building_shade, flinger)
DrawShade ==
    /\ pc = "shades"
    /\ index <= Len(constructor.buildings)
    /\ building_shade' = Append(building_shade, index)
    /\ index' = index + 1
    /\ UNCHANGED <<constructor, configuration, roads, background_color, svg,
                   pc, ways, layered_roads, layers, layer_index, heights,
                   height_index, previous_height, occupied, trackers, nodes,
                   node_order, node_parts, road_index, segment_index>>

\* lines 148-152: the shade group is added, the heights are sorted
ShadesDone ==
    /\ pc = "shades"
    /\ index > Len(constructor.buildings)
    /\ svg' = Append(svg, EmitParts("Group", 0, building_shade))
    /\ previous_height' = 0
    /\ heights' = SortedSet(constructor.heights)
    /\ height_index' = 1
    /\ pc' = "bands"
    /\ UNCHANGED <<constructor, configuration, roads, background_color,
                   index, ways, layered_roads, layers, layer_index,
                   building_shade, occupied, trackers, nodes, node_order,
                   node_parts, road_index, segment_index>>

\* line 152: the next height
EnterBand ==
    /\ pc = "bands"
    /\ height_index <= Len(heights)
    /\ index' = 1
    /\ pc' = "walls"
    /\ UNCHANGED <<constructor, configuration, roads, background_color, svg,
                   ways, layered_roads, layers, layer_index, building_shade,
                   heights, height_index, previous_height, occupied,
                   trackers, nodes, node_order, node_parts, road_index,
                   segment_index>>

\* lines 155-158: building.draw_walls(svg, height, previous_height, scale)
DrawWalls ==
    /\ pc = "walls"
    /\ index <= Len(constructor.buildings)
    /\ LET height == heights[height_index]
       IN  svg' = IF SkipWalls(constructor.buildings[index], height)
                  THEN svg
                  ELSE Append(svg, Emit("draw_walls", index, "", height,
                                        previous_height))
    /\ index' = index + 1
    /\ UNCHANGED <<constructor, configuration, roads, background_color, pc,
                   ways, layered_roads, layers, layer_index, building_shade,
                   heights, height_index, previous_height, occupied,
                   trackers, nodes, node_order, node_parts, road_index,
                   segment_index>>

WallsDone ==
    /\ pc = "walls"
    /\ index > Len(constructor.buildings)
    /\ index' = 1
    /\ pc' = "roofs"
    /\ UNCHANGED <<constructor, configuration, roads, background_color, svg,
                   ways, layered_roads, layers, layer_index, building_shade,
                   heights, height_index, previous_height, occupied,
                   trackers, nodes, node_order, node_parts, road_index,
                   segment_index>>

\* lines 160-162: building.draw_roof(svg, flinger, scale); x records the band
DrawRoof ==
    /\ pc = "roofs"
    /\ index <= Len(constructor.buildings)
    /\ LET height == heights[height_index]
       IN  svg' = IF RoofHere(constructor.buildings[index], height)
                  THEN Append(svg, Emit("draw_roof", index, "", height, 0))
                  ELSE svg
    /\ index' = index + 1
    /\ UNCHANGED <<constructor, configuration, roads, background_color, pc,
                   ways, layered_roads, layers, layer_index, building_shade,
                   heights, height_index, previous_height, occupied,
                   trackers, nodes, node_order, node_parts, road_index,
                   segment_index>>

\* the end of a band that leaves previous_height as it is
RoofsDoneKeepPrevious ==
    /\ pc = "roofs"
    /\ index > Len(constructor.buildings)
    /\ height_index' = height_index + 1
    /\ pc' = "bands"
    /\ UNCHANGED <<constructor, configuration, roads, background_color, svg,
                   index, ways, layered_roads, layers, layer_index,
                   building_shade, heights, previous_height, occupied,
                   trackers, nodes, node_order, node_parts, road_index,
                   segment_index>>

\* line 164: previous_height = height
RoofsDone ==
    /\ pc = "roofs"
    /\ index > Len(constructor.buildings)
    /\ previous_height' = heights[height_index]
    /\ height_index' = height_index + 1
    /\ pc' = "bands"
    /\ UNCHANGED <<constructor, configuration, roads, background_color, svg,
                   index, ways, layered_roads, layers, layer_index,
                   building_shade, heights, occupied, trackers, nodes,
                   node_order, node_parts, road_index, segment_index>>

\* line 166: draw_buildings returns
BandsDone ==
    /\ pc = "bands"
    /\ height_index > Len(heights)
    /\ pc' = "occupied"
    /\ UNCHANGED <<constructor, configuration, roads, background_color, svg,
                   index, ways, layered_roads, layers, layer_index,
                   building_shade, heights, height_index, previous_height,
                   occupied, trackers, nodes, node_order, node_parts,
                   road_index, segment_index>>

-----------------------------------------------------------------------------
(* Map.draw, the points *)

\* a tracker constructed whatever the overlap is
MakeOccupiedAlways ==
    /\ pc = "occupied"
    /\ occupied' = trackers + 1
    /\ trackers' = trackers + 1
    /\ nodes' = SortedIndices(PointKey(constructor.points),
                              Len(constructor.points))
    /\ index' = 1
    /\ pc' = "main"
    /\ UNCHANGED <<constructor, configuration, roads, background_color, svg,
                   ways, layered_roads, layers, layer_index, building_shade,
                   heights, height_index, previous_height, node_order,
                   node_parts, road_index, segment_index>>

\* lines 98-111: the tracker, then the points are sorted
MakeOccupied ==
    /\ pc = "occupied"
    /\ IF configuration.overlap = 0
       THEN occupied' = 0 /\ trackers' = trackers
       ELSE occupied' = trackers + 1 /\ trackers' = trackers + 1
    /\ nodes' = SortedIndices(PointKey(constructor.points),
                              Len(constructor.points))
    /\ index' = 1
    /\ pc' = "main"
    /\ UNCHANGED <<constructor, configuration, roads, background_color, svg,
                   ways, layered_roads, layers, layer_index, building_shade,
                   heights, height_index, previous_height, node_order,
                   node_parts, road_index, segment_index>>

\* one loop over the points that draws main and extra shapes of a point together
DrawMainWithExtra ==
    /\ pc = "main"
    /\ index <= Len(nodes)
    /\ svg' = svg \o
              <<Emit("draw_main_shapes", nodes[index], "", occupied, 0),
                Emit("draw_extra_shapes", nodes[index], "", occupied, 0)>>
    /\ index' = index + 1
    /\ UNCHANGED <<constructor, configuration, roads, background_color, pc,
                   ways, layered_roads, layers, layer_index, building_shade,
                   heights, height_index, previous_height, occupied,
                   trackers, nodes, node_order, node_parts, road_index,
                   segment_index>>

\* lines 113-115: node.draw_main_shapes(svg, occupied)
DrawMainShapes ==
    /\ pc = "main"
    /\ index <= Len(nodes)
    /\ svg' = Append(svg, Emit("draw_main_shapes", nodes[index], "", occupied, 0))
    /\ index' = index + 1
    /\ UNCHANGED <<constructor, configuration, roads, background_color, pc,
                   ways, layered_roads, layers, layer_index, building_shade,
                   heights, height_index, previous_height, occupied,
                   trackers, nodes, node_order, node_parts, road_index,
                   segment_index>>

MainDone ==
    /\ pc = "main"
    /\ index > Len(nodes)
    /\ index' = 1
    /\ pc' = "extra"
    /\ UNCHANGED <<constructor, configuration, roads, background_color, svg,
                   ways, layered_roads, layers, layer_index, building_shade,
                   heights, height_index, previous_height, occupied,
                   trackers, nodes, node_order, node_parts, road_index,
                   segment_index>>

\* an extra-shape loop that makes a tracker of its own for every call
DrawExtraShapesNewTracker ==
    /\ pc = "extra"
    /\ index <= Len(nodes)
    /\ trackers' = IF configuration.overlap = 0 THEN trackers ELSE trackers + 1
    /\ occupied' = IF configuration.overlap = 0 THEN 0 ELSE trackers + 1
    /\ svg' = Append(svg, Emit("draw_extra_shapes", nodes[index], "",
                               occupied', 0))
    /\ index' = index + 1
    /\ UNCHANGED <<constructor, configuration, roads, background_color, pc,
                   ways, layered_roads, layers, layer_index, building_shade,
                   heights, height_index, previous_height, nodes, node_order,
                   node_parts, road_index, segment_index>>

\* lines 117-121: point.draw_extra_shapes(svg, occupied)
DrawExtraShapes ==
    /\ pc = "extra"
    /\ index <= Len(nodes)
    /\ svg' = Append(svg, Emit("draw_extra_shapes", nodes[index], "", occupied, 0))
    /\ index' = index + 1
    /\ UNCHANGED <<constructor, configuration, roads, background_color, pc,
                   ways, layered_roads, layers, layer_index, building_shade,
                   heights, height_index, previous_height, occupied,
                   trackers, nodes, node_order, node_parts, road_index,
                   segment_index>>

ExtraDone ==
    /\ pc = "extra"
    /\ index > Len(nodes)
    /\ index' = 1
    /\ pc' = "texts"
    /\ UNCHANGED <<constructor, configuration, roads, background_color, svg,
                   ways, layered_roads, layers, layer_index, building_shade,
                   heights, height_index, previous_height, occupied,
                   trackers, nodes, node_order, node_parts, road_index,
                   segment_index>>

\* a text loop that tests the label mode only
DrawTextsInWireframe ==
    /\ pc = "texts"
    /\ index <= Len(nodes)
    /\ svg' = IF configuration.label_mode # "NO"
              THEN Append(svg, Emit("draw_texts", nodes[index],
                                    configuration.label_mode, occupied, 0))
              ELSE svg
    /\ index' = index + 1
    /\ UNCHANGED <<constructor, configuration, roads, background_color, pc,
                   ways, layered_roads, layers, layer_index, building_shade,
                   heights, height_index, previous_height, occupied,
                   trackers, nodes, node_order, node_parts, road_index,
                   segment_index>>

\* lines 123-133: point.draw_texts(svg, occupied, label_mode), if enabled
DrawTexts ==
    /\ pc = "texts"
    /\ index <= Len(nodes)
    /\ svg' = IF ~configuration.wireframe /\ configuration.label_mode # "NO"
              THEN Append(svg, Emit("draw_texts", nodes[index],
                                    configuration.label_mode, occupied, 0))
              ELSE svg
    /\ index' = index + 1
    /\ UNCHANGED <<constructor, configuration, roads, background_color, pc,
                   ways, layered_roads, layers, layer_index, building_shade,
                   heights, height_index, previous_height, occupied,
                   trackers, nodes, node_order, node_parts, road_index,
                   segment_index>>

\* line 135: draw returns
TextsDone ==
    /\ pc = "texts"
    /\ index > Len(nodes)
    /\ pc' = "done"
    /\ UNCHANGED <<constructor, configuration, roads, background_color, svg,
                   index, ways, layered_roads, layers, layer_index,
                   building_shade, heights, height_index, previous_height,
                   occupied, trackers, nodes, node_order, node_parts,
                   road_index, segment_index>>

-----------------------------------------------------------------------------
(* Map.draw_roads *)

\* line 192: the least number of parts that makes an intersection
IntersectionParts == 4

\* RoadPart(point_1, point_2, road.lanes, scale): every constructed part is
\* an object of its own, told apart here by the segment it was built for
RoadPart(road, segment, from, to) ==
    [road |-> road, segment |-> segment, from |-> from, to |-> to]

\* nodes[node] of the dict, the empty set for a node not yet in it
PartsAt(node) == IF node \in DOMAIN node_parts THEN node_parts[node] ELSE {}

\* list(parts): the elements of the set, in whatever order it iterates
ListsOf(parts) ==
    {l \in [1..Cardinality(parts) -> parts] :
        \A i, j \in 1..Cardinality(parts) : l[i] = l[j] => i = j}

\* the intersection test of line 192, with the bound off by one
TooFewPartsLoose(parts) == Cardinality(parts) < IntersectionParts - 1

\* line 192: len(parts) < 4
TooFewParts(parts) == Cardinality(parts) < IntersectionParts

\* a segment that leaves its part at the first node only
AddSegmentOneEnd ==
    /\ pc = "draw_roads"
    /\ road_index <= Len(roads)
    /\ segment_index < Len(roads[road_index].outers0) - 1
    /\ LET node_1 == roads[road_index].outers0[segment_index + 1]
           node_2 == roads[road_index].outers0[segment_index + 2]
           part_1 == RoadPart(road_index, segment_index, node_1, node_2)
           new == SelectSeq(IF node_1 = node_2 THEN <<node_1>>
                            ELSE <<node_1, node_2>>,
                            LAMBDA n : n \notin DOMAIN node_parts)
           with_1 == (node_1 :> (PartsAt(node_1) \cup {part_1})) @@ node_parts
       IN  /\ node_order' = node_order \o new
           /\ node_parts' = (node_2 :> (IF node_2 = node_1 THEN with_1[node_1]
                                        ELSE PartsAt(node_2))) @@ with_1
    /\ segment_index' = segment_index + 1
    /\ UNCHANGED <<constructor, configuration, roads, background_color, svg,
                   pc, index, ways, layered_roads, layers, layer_index,
                   building_shade, heights, height_index, previous_height,
                   occupied, trackers, nodes, road_index>>

\* lines 173-188: one pair of consecutive nodes of one road
AddSegment ==
    /\ pc = "draw_roads"
    /\ road_index <= Len(roads)
    /\ segment_index < Len(roads[road_index].outers0) - 1
    /\ LET node_1 == roads[road_index].outers0[segment_index + 1]
           node_2 == roads[road_index].outers0[segment_index + 2]
           part_1 == RoadPart(road_index, segment_index, node_1, node_2)
           part_2 == RoadPart(road_index, segment_index, node_2, node_1)
           new == SelectSeq(IF node_1 = node_2 THEN <<node_1>>
                            ELSE <<node_1, node_2>>,
                            LAMBDA n : n \notin DOMAIN node_parts)
           with_1 == (node_1 :> (PartsAt(node_1) \cup {part_1})) @@ node_parts
       IN  /\ node_order' = node_order \o new
           /\ node_parts' =
                  (node_2 :> ((IF node_2 = node_1 THEN with_1[node_1]
                               ELSE PartsAt(node_2)) \cup {part_2})) @@ with_1
    /\ segment_index' = segment_index + 1
    /\ UNCHANGED <<constructor, configuration, roads, background_color, svg,
                   pc, index, ways, layered_roads, layers, layer_index,
                   building_shade, heights, height_index, previous_height,
                   occupied, trackers, nodes, road_index>>

\* line 172: the next road
NextRoad ==
    /\ pc = "draw_roads"
    /\ road_index <= Len(roads)
    /\ segment_index >= Len(roads[road_index].outers0) - 1
    /\ road_index' = road_index + 1
    /\ segment_index' = 0
    /\ UNCHANGED <<constructor, configuration, roads, background_color, svg,
                   pc, index, ways, layered_roads, layers, layer_index,
                   building_shade, heights, height_index, previous_height,
                   occupied, trackers, nodes, node_order, node_parts>>

\* line 190: the dict is iterated in insertion order
RoadsDone ==
    /\ pc = "draw_roads"
    /\ road_index > Len(roads)
    /\ index' = 1
    /\ pc' = "intersections"
    /\ UNCHANGED <<constructor, configuration, roads, background_color, svg,
                   ways, layered_roads, layers, layer_index, building_shade,
                   heights, height_index, previous_height, occupied,
                   trackers, nodes, node_order, node_parts, road_index,
                   segment_index>>

\* lines 190-195: Intersection(list(parts)).draw(svg, True)
VisitNode ==
    /\ pc = "intersections"
    /\ index <= Len(node_order)
    /\ LET node == node_order[index]
           parts == node_parts[node]
       IN  IF TooFewParts(parts)
           THEN svg' = svg
           ELSE \E l \in ListsOf(parts) :
                    svg' = Append(svg, EmitParts("Intersection", node, l))
    /\ index' = index + 1
    /\ UNCHANGED <<constructor, configuration, roads, background_color, pc,
                   ways, layered_roads, layers, layer_index, building_shade,
                   heights, height_index, previous_height, occupied,
                   trackers, nodes, node_order, node_parts, road_index,
                   segment_index>>

\* draw_roads returns
NodesDone ==
    /\ pc = "intersections"
    /\ index > Len(node_order)
    /\ pc' = "done"
    /\ UNCHANGED <<constructor, configuration, roads, background_color, svg,
                   index, ways, layered_roads, layers, layer_index,
                   building_shade, heights, height_index, previous_height,
                   occupied, trackers, nodes, node_order, node_parts,
                   road_index, segment_index>>

-----------------------------------------------------------------------------
(* Specifications *)

NextDraw ==
    \/ DrawBackground
    \/ DrawWay
    \/ GroupRoads
    \/ EnterLayer
    \/ DrawBorder
    \/ BordersDone
    \/ DrawFill
    \/ FillsDone
    \/ LayersDone
    \/ DrawTree
    \/ TreesDone
    \/ DrawCrater
    \/ CratersDone
    \/ DrawSector
    \/ SectorsDone
    \/ DrawFlat
    \/ FlatDone
    \/ DrawShade
    \/ ShadesDone
    \/ EnterBand
    \/ DrawWalls
    \/ WallsDone
    \/ DrawRoof
    \/ RoofsDone
    \/ BandsDone
    \/ MakeOccupied
    \/ DrawMainShapes
    \/ MainDone
    \/ DrawExtraShapes
    \/ ExtraDone
    \/ DrawTexts
    \/ TextsDone

NextDrawRoads ==
    \/ AddSegment
    \/ NextRoad
    \/ RoadsDone
    \/ VisitNode
    \/ NodesDone

Next == NextDraw

\* draw over small collections, every configuration
Spec == Init /\ [][Next]_vars

\* draw over every list of figures
SpecFigures == InitFigures /\ [][NextDraw]_vars

\* draw over every list of roads
SpecRoads == InitRoads /\ [][NextDraw]_vars

\* draw over every list of buildings and every set of heights
SpecBuildings == InitBuildings /\ [][NextDraw]_vars

\* draw over every list of points, every configuration
SpecPoints == InitPoints /\ [][NextDraw]_vars

\* draw_roads over every list of roads
SpecJunctions == InitJunctions /\ [][NextDrawRoads]_vars

\* draw_roads over long roads and over many short roads
SpecSegments == InitSegments /\ [][NextDrawRoads]_vars

\* draw over roads that have nodes in common
SpecCrossings == InitCrossings /\ [][NextDraw]_vars

-----------------------------------------------------------------------------
(* Properties of the canvas *)

Positions == 1..Len(svg)

PointOps == {"draw_main_shapes", "draw_extra_shapes", "draw_texts"}
BuildingOps == {"building.draw", "Group", "draw_walls", "draw_roof"}

\* the stage of draw an operation belongs to
Stage(op) ==
    CASE op = "Rect" -> 1
      [] op = "path" -> 2
      [] op = "road.draw" -> 3
      [] op = "tree.draw" -> 4
      [] op = "crater.draw" -> 5
      [] op = "direction_sector.draw" -> 6
      [] op \in BuildingOps -> 7
      [] op \in PointOps -> 8
      [] OTHER -> 9

\* C1: one call of draw emits in the fixed stage order background, figures,
\* roads, trees, craters, direction sectors, buildings, points: an operation
\* of a later stage is never on the canvas before one of an earlier stage.
StageOrder ==
    \A i, j \in Positions : i < j => Stage(svg[i].op) <= Stage(svg[j].op)

\* C1 witness: draw has returned and every stage has drawn something
StageOrderWitness ==
    /\ pc = "done"
    /\ \A k \in 1..8 : \E i \in Positions : Stage(svg[i].op) = k

\* positions of the canvas that hold operation op
At(op) == {i \in Positions : svg[i].op = op}

\* positions of the canvas that hold operation op with string argument str
AtWith(op, str) == {i \in Positions : svg[i].op = op /\ svg[i].s = str}

\* the ids of the operations op on the canvas, in canvas order
IdsOf(op) ==
    LET sel == SelectSeq(svg, LAMBDA e : e.op = op)
    IN  [k \in 1..Len(sel) |-> sel[k].id]

IsPrefix(a, b) == Len(a) <= Len(b) /\ a = SubSeq(b, 1, Len(a))

FigureCount == Len(constructor.figures)
RoadCount == Len(constructor.roads)
PointCount == Len(constructor.points)
FigurePriority(f) == constructor.figures[f].priority
RoadLayer(r) == constructor.roads[r].layer
PointPriority(p) == constructor.points[p].priority

\* C2: the paths of the figures are on the canvas in ascending priority,
\* figures of equal priority in their order in constructor.figures, and once
\* the figure loop is over every figure with a non-empty path has its path.
FiguresByPriority ==
    /\ \A i, j \in At("path") :
          i < j =>
            \/ FigurePriority(svg[i].id) < FigurePriority(svg[j].id)
            \/ /\ FigurePriority(svg[i].id) = FigurePriority(svg[j].id)
               /\ svg[i].id < svg[j].id
    /\ pc \notin {"draw", "ways"} =>
          \A f \in 1..FigureCount :
              constructor.figures[f].path => \E i \in At("path") : svg[i].id = f

\* C2 witness: three drawn figures, the first and the last of one priority
\* and the middle one of a lower priority
FiguresByPriorityWitness ==
    /\ pc = "done"
    /\ \E a, b, c \in 1..FigureCount :
          /\ a < b /\ b < c
          /\ FigurePriority(a) = FigurePriority(c)
          /\ FigurePriority(b) < FigurePriority(a)
          /\ \A f \in {a, b, c} : \E i \in At("path") : svg[i].id = f

\* C3: within a layer every road's border draw (border_color, factor 2) is
\* on the canvas before any road's fill draw (color); no road is drawn
\* twice with the same colour, and after the road stage every road has
\* exactly one border draw and one fill draw.
BorderBeforeFill ==
    /\ \A i \in At("road.draw") :
          \/ svg[i].s = "border_color" /\ svg[i].x = 2
          \/ svg[i].s = "color" /\ svg[i].x = 0
    /\ \A j \in AtWith("road.draw", "color") : \A r \in 1..RoadCount :
          RoadLayer(r) = RoadLayer(svg[j].id) =>
            \E i \in AtWith("road.draw", "border_color") :
                i < j /\ svg[i].id = r
    /\ \A r \in 1..RoadCount : \A k \in {"border_color", "color"} :
          LET n == Cardinality({i \in AtWith("road.draw", k) : svg[i].id = r})
          IN  /\ n <= 1
              /\ pc \notin {"draw", "ways", "layers", "borders", "fills"}
                    => n = 1

\* C3 witness: two roads of one layer and a road of another layer are drawn
BorderBeforeFillWitness ==
    /\ pc = "done"
    /\ \E a, b, c \in 1..RoadCount :
          /\ a # b
          /\ RoadLayer(a) = RoadLayer(b)
          /\ RoadLayer(c) # RoadLayer(a)
    /\ Cardinality(At("road.draw")) = 2 * RoadCount

\* C4: the road draws are on the canvas by ascending layer, the roads of
\* one layer in their order in constructor.roads within the border pass and
\* within the fill pass, and a road is drawn only after the border and the
\* fill of every road of a lower layer.
LayersAscending ==
    /\ \A i, j \in At("road.draw") :
          i < j =>
            /\ RoadLayer(svg[i].id) <= RoadLayer(svg[j].id)
            /\ (RoadLayer(svg[i].id) = RoadLayer(svg[j].id)
                   /\ svg[i].s = svg[j].s)
                 => svg[i].id < svg[j].id
    /\ \A j \in At("road.draw") : \A r \in 1..RoadCount :
          RoadLayer(r) < RoadLayer(svg[j].id) =>
            \A k \in {"border_color", "color"} :
                \E i \in AtWith("road.draw", k) : i < j /\ svg[i].id = r

\* C4 witness: the roads are not given in layer order, one layer is negative
\* and one layer holds two roads
LayersAscendingWitness ==
    /\ pc = "done"
    /\ \E a, b, c \in 1..RoadCount :
          /\ a < b /\ b < c
          /\ RoadLayer(a) > RoadLayer(b)
          /\ RoadLayer(b) < 0
          /\ RoadLayer(c) = RoadLayer(a)
    /\ Cardinality(At("road.draw")) = 2 * RoadCount

\* the pass of the point loop an operation belongs to
Pass(op) ==
    CASE op = "draw_main_shapes" -> 1
      [] op = "draw_extra_shapes" -> 2
      [] op = "draw_texts" -> 3

PointPositions == {i \in Positions : svg[i].op \in PointOps}

\* C5: the points are drawn in three full passes: no extra shapes before
\* the main shapes of every point, no text before the extra shapes of every
\* point.
ThreePasses ==
    /\ \A i, j \in PointPositions :
          i < j => Pass(svg[i].op) <= Pass(svg[j].op)
    /\ \A j \in At("draw_extra_shapes") : \A p \in 1..PointCount :
          \E i \in At("draw_main_shapes") : i < j /\ svg[i].id = p
    /\ \A j \in At("draw_texts") : \A p \in 1..PointCount :
          \E i \in At("draw_extra_shapes") : i < j /\ svg[i].id = p

\* C5 witness: three points went through all three passes
ThreePassesWitness ==
    /\ pc = "done"
    /\ PointCount = 3
    /\ \A op \in PointOps : Cardinality(At(op)) = 3

\* C6: within a pass the points are visited by descending priority, points
\* of equal priority in their order in constructor.points; the passes visit
\* the points in the same order, and the first two visit every point.
PointsByPriority ==
    /\ \A i, j \in PointPositions :
          (i < j /\ svg[i].op = svg[j].op) =>
            \/ PointPriority(svg[i].id) > PointPriority(svg[j].id)
            \/ /\ PointPriority(svg[i].id) = PointPriority(svg[j].id)
               /\ svg[i].id < svg[j].id
    /\ IsPrefix(IdsOf("draw_extra_shapes"), IdsOf("draw_main_shapes"))
    /\ IsPrefix(IdsOf("draw_texts"), IdsOf("draw_extra_shapes"))
    /\ pc = "done" =>
          /\ Len(IdsOf("draw_main_shapes")) = PointCount
          /\ IdsOf("draw_extra_shapes") = IdsOf("draw_main_shapes")
          /\ IdsOf("draw_texts") \in {<<>>, IdsOf("draw_main_shapes")}

\* C6 witness: three labelled points, the first and the last of one priority
\* and the middle one of a higher priority
PointsByPriorityWitness ==
    /\ pc = "done"
    /\ PointCount = 3
    /\ PointPriority(1) < PointPriority(2)
    /\ PointPriority(3) = PointPriority(1)
    /\ IdsOf("draw_texts") = <<2, 1, 3>>

-----------------------------------------------------------------------------
(* Properties of draw_roads *)

Range(f) == {f[k] : k \in DOMAIN f}

IntersectionsAt(node) == {i \in At("Intersection") : svg[i].id = node}

\* C7: an Intersection is drawn for a node only if the node has gathered at
\* least 4 RoadParts, never twice for one node, and when draw_roads has
\* returned every node with at least 4 parts has exactly one Intersection
\* and every node with 3 or fewer parts has none.
IntersectionThreshold ==
    /\ \A i \in At("Intersection") :
          /\ Cardinality(PartsAt(svg[i].id)) >= 4
          /\ Range(svg[i].parts) = PartsAt(svg[i].id)
    /\ \A n \in OSMNodes : Cardinality(IntersectionsAt(n)) <= 1
    /\ pc = "done" =>
          \A n \in OSMNodes :
              Cardinality(IntersectionsAt(n)) =
                  IF Cardinality(PartsAt(n)) >= 4 THEN 1 ELSE 0

\* C7 witness: draw_roads has returned, a node with exactly 4 parts has its
\* Intersection and a node with fewer parts has none
IntersectionThresholdWitness ==
    /\ pc = "done"
    /\ \E n, m \in OSMNodes :
          /\ Cardinality(PartsAt(n)) = 4
          /\ Cardinality(IntersectionsAt(n)) = 1
          /\ Cardinality(PartsAt(m)) \in 1..3
          /\ IntersectionsAt(m) = {}

-----------------------------------------------------------------------------
(* Properties of draw_buildings *)

BuildingCount == Len(constructor.buildings)
WallsOf(b) == {i \in At("draw_walls") : svg[i].id = b}
RoofsOf(b) == {i \in At("draw_roof") : svg[i].id = b}
WallsIn(b, h) == {i \in WallsOf(b) : svg[i].x = h}

\* the height below h in constructor.heights, 0 under the lowest
Below(h) ==
    LET lower == {g \in constructor.heights : g < h}
    IN  IF lower = {} THEN 0
        ELSE CHOOSE g \in lower : \A k \in lower : k <= g

\* the heights whose wall loop is over
WalledHeights ==
    CASE pc \in {"bands", "walls"} -> {heights[k] : k \in 1..(height_index - 1)}
      [] pc = "roofs" -> {heights[k] : k \in 1..height_index}
      [] pc \in {"occupied", "main", "extra", "texts", "done"}
           /\ configuration.building_mode # "FLAT" -> constructor.heights
      [] OTHER -> {}

\* draw_walls is called for building b in the band ending at h exactly when
\* InBand(b, h), once, between the height below h and h
WallRule(InBand(_, _)) ==
    /\ \A i \in At("draw_walls") :
          /\ svg[i].x \in constructor.heights
          /\ svg[i].y = Below(svg[i].x)
          /\ InBand(constructor.buildings[svg[i].id], svg[i].x)
    /\ \A h \in WalledHeights : \A b \in 1..BuildingCount :
          Cardinality(WallsIn(b, h)) =
              IF InBand(constructor.buildings[b], h) THEN 1 ELSE 0

SpansStrictly(building, h) ==
    building.min_height <= h /\ h < building.height

Spans(building, h) ==
    building.min_height <= h /\ h <= building.height

\* C8 as claimed: draw_walls is called for building b in the band ending at
\* h if and only if b.min_height <= h < b.height.
WallsStrictlyBelowHeight == WallRule(SpansStrictly)

\* C8 as amended: draw_walls is called for building b in the band ending at
\* h if and only if b.min_height <= h <= b.height, between the height below
\* h (0 for the lowest) and h.
WallsUpToHeight == WallRule(Spans)

\* C8 witness: an extruded building got walls in the band ending at its own
\* height and in a lower band, and was skipped in a band above its height
WallsUpToHeightWitness ==
    /\ pc = "done"
    /\ configuration.building_mode = "EXTRUDED"
    /\ \E b \in 1..BuildingCount : \E low, high \in constructor.heights :
          /\ low < constructor.buildings[b].height
          /\ high > constructor.buildings[b].height
          /\ constructor.buildings[b].height \in constructor.heights
          /\ WallsIn(b, low) # {}
          /\ WallsIn(b, constructor.buildings[b].height) # {}
          /\ WallsIn(b, high) = {}

\* C9: with the heights {3, 6, 9}, an extruded building of height 9 and
\* min_height 3 gets walls exactly in the bands ending at 6 and 9 and its
\* roof only in the band ending at 9.
WallsOfScenario ==
    (/\ pc = "done"
     /\ configuration.building_mode = "EXTRUDED"
     /\ constructor.heights = {3, 6, 9}) =>
        \A b \in 1..BuildingCount :
            constructor.buildings[b] = [min_height |-> 3, height |-> 9] =>
                /\ {svg[i].x : i \in WallsOf(b)} = {6, 9}
                /\ {svg[i].x : i \in RoofsOf(b)} = {9}

\* C10: the walls are on the canvas by ascending band; the lower bound of a
\* band is the height below it in constructor.heights, 0 for the lowest
\* band, and is strictly below the band's height when all heights are
\* positive.
BandsChained ==
    /\ \A i, j \in At("draw_walls") : i < j => svg[i].x <= svg[j].x
    /\ \A i \in At("draw_walls") :
          /\ svg[i].y = Below(svg[i].x)
          /\ (\A h \in constructor.heights : h > 0) => svg[i].y < svg[i].x
    /\ pc \in {"walls", "roofs"} =>
          /\ previous_height = Below(heights[height_index])
          /\ height_index = 1 => previous_height = 0
          /\ height_index > 1 => previous_height = heights[height_index - 1]

\* C10 witness: walls were drawn in three bands, each starting where the
\* one before ended, the first at 0
BandsChainedWitness ==
    /\ pc = "done"
    /\ \E i, j, k \in At("draw_walls") :
          /\ i < j /\ j < k
          /\ svg[i].y = 0 /\ svg[i].x > 0
          /\ svg[j].y = svg[i].x /\ svg[j].x > svg[j].y
          /\ svg[k].y = svg[j].x /\ svg[k].x > svg[k].y

\* the heights whose roof loop is over
RoofedHeights ==
    CASE pc \in {"bands", "walls", "roofs"} ->
             {heights[k] : k \in 1..(height_index - 1)}
      [] pc \in {"occupied", "main", "extra", "texts", "done"}
           /\ configuration.building_mode # "FLAT" -> constructor.heights
      [] OTHER -> {}

\* C11: a roof is drawn for a building only in the band that ends at the
\* building's height, at most once; when that band is over, every building
\* of that height has its roof; the roof is on the canvas after every wall
\* of its band (and of the lower bands) and before every wall of a higher
\* band.
RoofAfterWalls ==
    /\ \A i \in At("draw_roof") :
          /\ svg[i].x \in constructor.heights
          /\ svg[i].x = constructor.buildings[svg[i].id].height
          /\ \A b \in 1..BuildingCount :
                Spans(constructor.buildings[b], svg[i].x) =>
                    \E j \in WallsIn(b, svg[i].x) : j < i
          /\ \A j \in At("draw_walls") :
                /\ svg[j].x <= svg[i].x => j < i
                /\ svg[j].x > svg[i].x => i < j
    /\ \A b \in 1..BuildingCount :
          /\ Cardinality(RoofsOf(b)) <= 1
          /\ constructor.buildings[b].height \in RoofedHeights
                => Cardinality(RoofsOf(b)) = 1

\* C11 witness: the roof of a building is followed by a wall of a taller
\* building in a higher band
RoofAfterWallsWitness ==
    /\ pc = "done"
    /\ \E b, c \in 1..BuildingCount :
          /\ constructor.buildings[b].height < constructor.buildings[c].height
          /\ \E i \in RoofsOf(b) : \E j \in WallsOf(c) :
                i < j /\ svg[j].x > svg[i].x
          /\ RoofsOf(c) # {}

-----------------------------------------------------------------------------
(* Properties of the configuration *)

TextsOn == ~configuration.wireframe /\ configuration.label_mode # "NO"

PointStages == {"main", "extra", "texts", "done"}

\* C12: in wireframe the background rectangle is #111111 (the scheme's
\* colour otherwise) and draw_texts is never called; out of wireframe
\* draw_texts is called, once for every point, exactly when the label mode
\* is not NO.
WireframeHidesTexts ==
    /\ \A i \in At("Rect") :
          svg[i].s = IF configuration.wireframe THEN "#111111"
                     ELSE "background_color"
    /\ pc # "draw" => Cardinality(At("Rect")) = 1
    /\ ~TextsOn => At("draw_texts") = {}
    /\ (pc = "done" /\ TextsOn) =>
          \A p \in 1..PointCount :
              Cardinality({i \in At("draw_texts") : svg[i].id = p}) = 1

\* C12 witness: a wireframe map with labels requested has drawn its points
\* on the dark background without a text
WireframeHidesTextsWitness ==
    /\ pc = "done"
    /\ configuration.wireframe
    /\ configuration.label_mode = "ALL"
    /\ PointCount = 3
    /\ Cardinality(At("draw_extra_shapes")) = 3
    /\ svg[1].s = "#111111"
    /\ At("draw_texts") = {}

\* C13: with overlap 0 no Occupied is ever constructed and every point call
\* gets None as its tracker; with another overlap one is constructed before
\* the points are drawn.
NoTrackerWithoutOverlap ==
    /\ configuration.overlap = 0 =>
          /\ trackers = 0
          /\ occupied = 0
          /\ \A i \in PointPositions : svg[i].x = 0
    /\ (configuration.overlap # 0 /\ pc \in PointStages) =>
          trackers > 0 /\ occupied # 0

\* C13 witness: three labelled points went through the three passes with
\* overlap 0
NoTrackerWithoutOverlapWitness ==
    /\ pc = "done"
    /\ configuration.overlap = 0
    /\ PointCount = 3
    /\ \A op \in PointOps :
          Cardinality({i \in At(op) : svg[i].x = 0}) = 3

\* C14: with a building mode that is neither flat nor extruded draw fails
\* at its start: nothing is ever put on the canvas.
UnrecognizedModeDrawsNothing ==
    configuration.building_mode = "UNRECOGNIZED" => svg = <<>>

\* the segment ends of constructor.roads that lie on node n
SegmentEndsAt(n) ==
    {t \in (1..RoadCount) \X (1..Cardinality(OSMNodes)) \X {0, 1} :
        /\ t[2] < Len(constructor.roads[t[1]].outers0)
        /\ constructor.roads[t[1]].outers0[t[2] + t[3]] = n}

RoadStages == {"draw", "ways", "layers", "borders", "fills"}

\* C15: draw builds the junctions in its road stage: when the road stage
\* is over, every node on which at least 4 segment ends of constructor.roads
\* lie has its Intersection on the canvas, after the figures and before the
\* trees and everything later.
JunctionsInRoadStage ==
    pc \notin RoadStages =>
        \A n \in OSMNodes :
            Cardinality(SegmentEndsAt(n)) >= 4 =>
                \E i \in At("Intersection") :
                    /\ svg[i].id = n
                    /\ \A j \in At("path") : j < i
                    /\ \A j \in Positions : Stage(svg[j].op) \in 4..8 => i < j

\* part p was built before part q
BuiltBefore(p, q) ==
    \/ p.road < q.road
    \/ p.road = q.road /\ p.segment < q.segment

\* C16: draw_roads is deterministic: the list of parts handed to an
\* Intersection is fixed by the roads, it is the parts of the node in the
\* order in which they were built, whatever order the set iterates in.
IntersectionPartsInBuildOrder ==
    \A i \in At("Intersection") :
        \A a, b \in 1..Len(svg[i].parts) :
            a < b => BuiltBefore(svg[i].parts[a], svg[i].parts[b])

\* draw_roads has gone through segment k (0-based) of road r
SegmentDone(r, k) ==
    /\ r \in 1..Len(roads)
    /\ k \in 0..(Len(roads[r].outers0) - 2)
    /\ \/ pc # "draw_roads"
       \/ r < road_index
       \/ r = road_index /\ k < segment_index

\* part p is the part of an end of a segment gone through that lies on n,
\* directed from n to the other end
PartOfEndAt(p, n) ==
    /\ SegmentDone(p.road, p.segment)
    /\ p.from = n
    /\ LET way == roads[p.road].outers0
       IN  \/ way[p.segment + 1] = n /\ p.to = way[p.segment + 2]
           \/ way[p.segment + 2] = n /\ p.to = way[p.segment + 1]

\* C17: every segment gone through has left one part at each of its two
\* nodes, directed from that node to the other one, and a node holds
\* nothing but the parts of the segment ends that lie on it, one part for
\* each end.  When draw_roads has returned, a node with 4 or more of them
\* has one Intersection, built from all its parts, and a node with fewer
\* has none.
PartsCountSegmentEnds ==
    /\ \A r \in 1..Len(roads) :
          \A k \in 0..(Len(roads[r].outers0) - 2) :
              SegmentDone(r, k) =>
                  LET node_1 == roads[r].outers0[k + 1]
                      node_2 == roads[r].outers0[k + 2]
                  IN  /\ RoadPart(r, k, node_1, node_2) \in PartsAt(node_1)
                      /\ RoadPart(r, k, node_2, node_1) \in PartsAt(node_2)
    /\ \A n \in OSMNodes :
          /\ \A p \in PartsAt(n) : PartOfEndAt(p, n)
          /\ pc = "done" =>
                /\ Cardinality(IntersectionsAt(n)) =
                       IF Cardinality(PartsAt(n)) >= 4 THEN 1 ELSE 0
                /\ \A i \in IntersectionsAt(n) :
                      /\ Len(svg[i].parts) = Cardinality(PartsAt(n))
                      /\ Range(svg[i].parts) = PartsAt(n)

\* C17 witness: four one-segment roads end at one node, which has its 4
\* parts and one Intersection built from the 4; another node, where two of
\* the roads start, has 2 parts and no Intersection
PartsCountSegmentEndsWitness ==
    /\ pc = "done"
    /\ Len(roads) = 4
    /\ \E n, m \in OSMNodes :
          /\ \A r \in 1..4 :
                Len(roads[r].outers0) = 2 /\ roads[r].outers0[2] = n
          /\ Cardinality(PartsAt(n)) = 4
          /\ \E i \in IntersectionsAt(n) : Len(svg[i].parts) = 4
          /\ Cardinality(PartsAt(m)) = 2
          /\ IntersectionsAt(m) = {}

\* C18: with an overlap other than 0 draw constructs one Occupied, after
\* the buildings and before the first point; it is never replaced, and it
\* is the tracker of every draw_main_shapes, draw_extra_shapes and
\* draw_texts call.
OneTrackerForAllPasses ==
    configuration.overlap # 0 =>
        /\ trackers = IF pc \in PointStages THEN 1 ELSE 0
        /\ occupied = trackers
        /\ \A i \in PointPositions : svg[i].x = 1
        /\ trackers = 0 => PointPositions = {}
        /\ trackers = 1 =>
              \A b \in 1..BuildingCount :
                  configuration.building_mode = "FLAT" =>
                      \E i \in At("building.draw") : svg[i].id = b
        /\ (trackers = 1 /\ configuration.building_mode # "FLAT") =>
              /\ At("Group") # {}
              /\ RoofedHeights = constructor.heights

\* C18 witness: three labelled points went through the three passes with
\* the one tracker
OneTrackerForAllPassesWitness ==
    /\ pc = "done"
    /\ configuration.overlap = 1
    /\ trackers = 1
    /\ PointCount = 3
    /\ \A op \in PointOps :
          Cardinality({i \in At(op) : svg[i].x = 1}) = 3

\* the figures the loop has gone through that have a path
WaysDrawn ==
    LET done == IF pc = "draw" THEN 0
                ELSE IF pc = "ways" THEN index - 1 ELSE FigureCount
    IN  {ways[k] : k \in {k \in 1..done : constructor.figures[ways[k]].path}}

\* C19: a figure with an empty path adds nothing and does not stop the
\* loop: the paths on the canvas are those of the figures gone through that
\* have a non-empty path, once each, by priority and input order; in the
\* end they are exactly the figures with a non-empty path.
EmptyPathsSkipped ==
    /\ \A i \in At("path") : constructor.figures[svg[i].id].path
    /\ {svg[i].id : i \in At("path")} = WaysDrawn
    /\ Cardinality(At("path")) = Cardinality(WaysDrawn)
    /\ pc \notin {"draw", "ways"} =>
          WaysDrawn = {f \in 1..FigureCount : constructor.figures[f].path}
    /\ \A i, j \in At("path") :
          i < j =>
            /\ FigurePriority(svg[i].id) <= FigurePriority(svg[j].id)
            /\ FigurePriority(svg[i].id) = FigurePriority(svg[j].id)
                  => svg[i].id < svg[j].id

\* C19 witness: the sort moved the figures, and the figure with an empty
\* path stood, in priority order, between two figures that were drawn
EmptyPathsSkippedWitness ==
    /\ pc = "done"
    /\ FigureCount = 3
    /\ ways # <<1, 2, 3>>
    /\ ~constructor.figures[ways[2]].path
    /\ IdsOf("path") = <<ways[1], ways[3]>>

\* C20: every wall drawn for a building lies within the building's
\* vertical extent: it starts at or above min_height and ends at or below
\* height.
WallsWithinExtent ==
    \A i \in At("draw_walls") :
        /\ constructor.buildings[svg[i].id].min_height <= svg[i].y
        /\ svg[i].x <= constructor.buildings[svg[i].id].height

=============================================================================
